---- MODULE Spec2Model ----
(***************************************************************************)
(* Incremental synchronization of the hourly AQI feature store.            *)
(*                                                                         *)
(* Two entry points write the Mongo collection aqi_features_hourly:        *)
(*   src/src/hourly_ingestion_catchup.py  run()  (gap recovery)            *)
(*   src/src/hourly_ingestion.py          run()  (single current hour)     *)
(* They share the cleaner (src/preprocessing/clean_data.py) and the        *)
(* feature builder (src/feature_engineering/feature_pipeline.py).          *)
(*                                                                         *)
(* Conventions                                                             *)
(*  - An instant is an integer number of minutes since 1970-01-01 00:00    *)
(*    UTC.  A "naive local" timestamp is the same count on the Karachi     *)
(*    wall clock (UTC + 5 h, no daylight saving).                          *)
(*  - A pandas DataFrame is [cols |-> set of column names,                 *)
(*    rows |-> sequence of functions from cols to values]; a missing cell  *)
(*    (NaN / None) is the value NaN.                                       *)
(*  - Of the 7 pollutant and 4 weather columns the model keeps three       *)
(*    pollutant columns (us_aqi, pm2_5: critical; pm10: not critical) and  *)
(*    two weather columns (wind_speed_10m: critical; temperature_2m: not). *)
(*    Every loop of the code treats the omitted columns exactly like pm10  *)
(*    and temperature_2m.                                                  *)
(*  - A mean is kept exactly, in units of 1/24 (window lengths 6 and 24    *)
(*    divide 24); the interaction term pm2_5 / (wind + 1) is kept in units *)
(*    of 1/60, exact for wind_speed_10m <= 5; hour_sin and hour_cos carry  *)
(*    the hour of day they are computed from (the pair (sin, cos) is       *)
(*    injective on 0..23).                                                 *)
(***************************************************************************)
EXTENDS Integers, Sequences, FiniteSets, TLC

VARIABLES
    store,      \* the collection: a set of documents
    now,        \* the wall clock, an instant
    source,     \* what Open-Meteo holds: a set of raw rows, naive local time
    revised,    \* whether the source has revised a value it had published
    env,        \* the environment: MONGODB_URI present, HTTP requests
                \* succeed, the store accepts writes
    pre,        \* the collection as it was when the last run started
    last,       \* what the last run did (its outcome and what it printed)
    dedup,      \* the merge step on its own: the two frames it is given and
                \* the frame it gives
    commit,     \* the window filter and the committer on their own: the
                \* engineered frame and window they are given, what the
                \* store rejects, and what the committer returns
    runs,       \* two runs in flight at once: where each is, the upserts
                \* it has still to send, and the record last applied for
                \* each hour
    pipe        \* the cleaner and the builder on their own: the raw frame
                \* they are given, the cleaned and the engineered frame

\* the variables of the steps taken on their own
parts == <<dedup, commit, runs, pipe>>

vars == <<store, now, source, revised, env, pre, last, parts>>

----------------------------------------------------------------------------
(* Bounds of the model *)

\* hours the wall clock may advance past the last backfilled hour
MaxAhead == 3
\* the hours the frames given to the merge step on its own are drawn from
MaxMergeHours == 4
\* rows of history context before the window, rows of a short window and
\* rows past the window in the frames given to the committer on its own
MaxContext == 2
MaxWindow == 3
MaxBeyond == 1
\* hours of the raw frames given to the cleaner and the builder on their own
MaxPipeHours == 28
\* documents of a short backfilled collection: fewer than the 24 a lag needs
ShortHist == 5
\* documents of a backfilled collection that covers the 24 hours a lag needs
MidHist == 26
\* documents of a backfilled collection longer than the history a run reads
LongHist == 74

----------------------------------------------------------------------------
(* Program constants *)

LOCATION_ID == "karachi"
HISTORY_HOURS_FOR_FEATURES == 72
UPSERT_BATCH_SIZE == 1000
\* TZ = "Asia/Karachi": UTC+05:00 all year, in minutes
TZ == 300
\* pandas' missing value
NaN == -1

RAW_AIR_COLS == {"pm10", "pm2_5", "us_aqi"}
RAW_WEATHER_COLS == {"temperature_2m", "wind_speed_10m"}
\* clean_data.py names the same columns WEATHER_COLS / POLLUTANT_COLS
WEATHER_COLS == RAW_WEATHER_COLS
POLLUTANT_COLS == RAW_AIR_COLS

FlagCol(c) == c \o "_was_missing"
FlagCols == {FlagCol(c) : c \in RAW_AIR_COLS \cup RAW_WEATHER_COLS}
TimeCols == {"hour_sin", "hour_cos", "day_of_week", "month"}
LagCols == {"aqi_lag_1", "aqi_lag_3", "aqi_lag_24", "aqi_roll_6", "aqi_roll_24"}

----------------------------------------------------------------------------
(* Time *)

Hours(n) == n * 60
\* Timestamp.floor("h")
FloorH(t) == (t \div 60) * 60
\* tz_convert between UTC and the naive Karachi wall clock
ToLocal(t) == t + TZ
ToUtc(t) == t - TZ
\* .date(): the civil day number of a naive timestamp
DateOf(t) == t \div 1440
\* .dt.hour, .dt.dayofweek (Monday = 0; 1970-01-01 was a Thursday), .dt.month
HourOfDay(t) == (t \div 60) % 24
DayOfWeek(t) == (DateOf(t) + 3) % 7
CumDays == <<31, 59, 90, 120, 151, 181, 212, 243, 273, 304, 334>>
MonthOf(t) == 1 + Cardinality({m \in 1..11 : (DateOf(t) % 365) >= CumDays[m]})

----------------------------------------------------------------------------
(* Sequences and frames *)

IsNa(v) == v = NaN

\* Identities on sequences and on functions: TLC evaluates a function
\* expression anew at every application unless it is made a value once
Tup(s) == s \o <<>>
Rec(f) == f @@ <<>>

\* the sum of xs[lo..hi], by halves
RECURSIVE SumRange(_, _, _)
SumRange(xs, lo, hi) ==
    IF lo > hi THEN 0
    ELSE IF lo = hi THEN xs[lo]
    ELSE LET mid == (lo + hi) \div 2
         IN  SumRange(xs, lo, mid) + SumRange(xs, mid + 1, hi)

Sum(xs) == SumRange(xs, 1, Len(xs))

\* np.mean / rolling().mean(), in units of 1/24
Mean(xs) == (Sum(xs) * 24) \div Len(xs)

Range(s) == {s[i] : i \in DOMAIN s}
Min(S) == CHOOSE x \in S : \A y \in S : x <= y
Max(S) == CHOOSE x \in S : \A y \in S : x >= y

\* the elements of a set of integers, ascending
Ascending(S) ==
    LET rank == Rec([x \in S |-> Cardinality({y \in S : y < x}) + 1])
    IN  Tup([k \in 1..Cardinality(S) |-> CHOOSE x \in S : rank[x] = k])

EmptyFrame == [cols |-> {}, rows |-> <<>>]
\* a row seen through a wider set of columns: absent cells are NaN
Widen(r, cols) == Rec([c \in cols |-> IF c \in DOMAIN r THEN r[c] ELSE NaN])
\* a row has a NaN in some column (what DataFrame.dropna() drops)
HasNa(r) == \E c \in DOMAIN r \ {"location_id"} : IsNa(r[c])
\* the cells of one column, in row order
Column(rows, c) == Tup([i \in DOMAIN rows |-> rows[i][c]])

\* all orderings of a finite set
RECURSIVE Perms(_)
Perms(S) ==
    IF S = {} THEN {<<>>}
    ELSE UNION {{<<x>> \o p : p \in Perms(S \ {x})} : x \in S}

\* the indices of keys in ascending order of key, equal keys in index order
StableOrder(keys) ==
    LET rank == Tup([i \in DOMAIN keys |->
                   Cardinality({j \in DOMAIN keys :
                                  keys[j] < keys[i] \/ (keys[j] = keys[i] /\ j < i)}) + 1])
    IN  Tup([k \in DOMAIN keys |-> CHOOSE i \in DOMAIN keys : rank[i] = k])

\* the orders got from order by rearranging, for each key of tied, the
\* (adjacent) indices that carry it
RECURSIVE Rearranged(_, _, _)
Rearranged(keys, order, tied) ==
    IF tied = {} THEN {order}
    ELSE LET v == Min(tied)
             at == {k \in DOMAIN order : keys[order[k]] = v}
             first == Min(at)
         IN  UNION {Rearranged(keys,
                               Tup([k \in DOMAIN order |->
                                  IF k \in at THEN p[k - first + 1] ELSE order[k]]),
                               tied \ {v})
                      : p \in Perms({order[k] : k \in at})}

\* DataFrame.sort_values(col) with the default kind="quicksort", which is not
\* a stable sort: the results it may return are ascending in the key, with
\* the rows of equal key in any order
SortValues(rows, col) ==
    LET keys == Column(rows, col)
        tied == {v \in Range(keys) : Cardinality({i \in DOMAIN keys : keys[i] = v}) > 1}
    IN  {Tup([k \in DOMAIN idx |-> rows[idx[k]]]) : idx \in Rearranged(keys, StableOrder(keys), tied)}

\* the same sort when it is known (or required) that no two rows share a key
SortUnique(rows, col) == CHOOSE s \in SortValues(rows, col) : TRUE

\* DataFrame.drop_duplicates(subset=[col], keep="last")
DropDuplicatesKeepLast(rows, col) ==
    LET keep == {i \in DOMAIN rows : \A j \in DOMAIN rows : j > i => rows[j][col] # rows[i][col]}
        idx == Ascending(keep)
    IN  Tup([k \in DOMAIN idx |-> rows[idx[k]]])

\* pd.concat([a, b], ignore_index=True): the union of the columns
Concat(a, b) ==
    LET cols == a.cols \cup b.cols
    IN  [cols |-> cols,
         rows |-> [i \in 1..Len(a.rows) |-> Widen(a.rows[i], cols)]
                  \o [i \in 1..Len(b.rows) |-> Widen(b.rows[i], cols)]]

----------------------------------------------------------------------------
(* The cleaner: src/preprocessing/clean_data.py *)

\* out.asfreq("h"): one row per hour from the first to the last timestamp,
\* all-NaN where the frame had no row
AsFreq(rows, cols) ==
    LET t0 == rows[1].timestamp
        n  == ((rows[Len(rows)].timestamp - t0) \div 60) + 1
    IN  Tup([i \in 1..n |->
            LET t == t0 + Hours(i - 1)
                at == {k \in DOMAIN rows : rows[k].timestamp = t}
            IN  IF at # {} THEN rows[CHOOSE k \in at : TRUE]
                ELSE Rec([c \in cols |-> IF c = "timestamp" THEN t ELSE NaN])])

\* Series.interpolate(method="time", limit=lim, limit_direction="both") on an
\* hourly index: a NaN at most lim rows after a valid cell, or at most lim
\* rows before one, is filled: linearly between its valid neighbours, with
\* the nearest valid cell when it has a neighbour on one side only
Interpolate(xs, lim) ==
    LET valid == {j \in DOMAIN xs : ~IsNa(xs[j])}
    IN  Tup([i \in DOMAIN xs |->
            IF ~IsNa(xs[i]) THEN xs[i]
            ELSE LET before == {j \in valid : j < i}
                     after  == {j \in valid : j > i}
                     p == Max(before)
                     q == Min(after)
                     reach == \/ (before # {} /\ i - p <= lim)
                              \/ (after # {} /\ q - i <= lim)
                 IN  IF ~reach THEN NaN
                     ELSE IF before = {} THEN xs[q]
                     ELSE IF after = {} THEN xs[p]
                     ELSE xs[p] + (((xs[q] - xs[p]) * (i - p)) \div (q - p))])

\* Series.ffill(limit=lim): a NaN takes the last valid cell before it when
\* that cell is at most lim rows back
FFill(xs, lim) ==
    Tup([i \in DOMAIN xs |->
        IF ~IsNa(xs[i]) THEN xs[i]
        ELSE LET before == {j \in DOMAIN xs : j < i /\ ~IsNa(xs[j])}
             IN  IF before # {} /\ i - Max(before) <= lim THEN xs[Max(before)] ELSE NaN])

\* dropna() keeps the rows with no NaN in any column
DropNa(rows) == SelectSeq(rows, LAMBDA r : ~HasNa(r))

\* clean_aqi_weather_data(df, freq="h", max_weather_gap_hours=3,
\*                        pollutant_ffill_limit=1), for a frame with a
\* timestamp column and no two rows of one timestamp
clean_aqi_weather_data(df) ==
    IF df.rows = <<>> THEN df
    ELSE
    LET raw == WEATHER_COLS \cup POLLUTANT_COLS
        grid == AsFreq(SortUnique(df.rows, "timestamp"), df.cols)
        flags == {FlagCol(c) : c \in raw \cap df.cols}
        cols == df.cols \cup flags
        weather == Rec([c \in WEATHER_COLS \cap df.cols |-> Interpolate(Column(grid, c), 3)])
        pollutant == Rec([c \in POLLUTANT_COLS \cap df.cols |-> FFill(Column(grid, c), 1)])
        filled == Tup([i \in DOMAIN grid |->
                    Rec([c \in cols |->
                        IF \E r \in raw \cap df.cols : c = FlagCol(r)
                        THEN LET r == CHOOSE r \in raw \cap df.cols : c = FlagCol(r)
                             IN  IF IsNa(grid[i][r]) THEN 1 ELSE 0
                        ELSE IF c \in DOMAIN weather THEN weather[c][i]
                        ELSE IF c \in DOMAIN pollutant THEN pollutant[c][i]
                        ELSE grid[i][c]])])
    IN  [cols |-> cols, rows |-> DropNa(filled)]

----------------------------------------------------------------------------
(* The feature builder: src/feature_engineering/feature_pipeline.py *)

\* pm2_5 / (wind_speed_10m + 1.0), in units of 1/60
Interaction(pm, wind) ==
    IF IsNa(pm) \/ IsNa(wind) THEN NaN ELSE (pm * 60) \div (wind + 1)

\* Series.shift(k): the cell k rows earlier
Shift(xs, k, i) == IF i - k >= 1 THEN xs[i - k] ELSE NaN

\* xs.shift(1).rolling(window=w, min_periods=w).mean() at row i: the mean of
\* the w cells before row i, when all w exist and are valid
RollingPast(xs, w, i) ==
    IF i - w >= 1 /\ \A j \in (i - w)..(i - 1) : ~IsNa(xs[j])
    THEN Mean(SubSeq(xs, i - w, i - 1))
    ELSE NaN

StoredCols(cols) ==
    {"location_id", "event_timestamp"} \cup RAW_AIR_COLS \cup RAW_WEATHER_COLS
        \cup TimeCols \cup LagCols \cup {"pm25_wind_interaction"}
        \cup (cols \cap FlagCols)

build_feature_store_rows(df, location_id) ==
    IF df.rows = <<>> THEN [cols |-> StoredCols(df.cols), rows |-> <<>>]
    ELSE
    LET rows == SortUnique(df.rows, "timestamp")
        aqi == Column(rows, "us_aqi")
        out == Tup([i \in DOMAIN rows |->
                 LET r == rows[i]
                     ts == r.timestamp
                 IN  Rec([c \in StoredCols(df.cols) |->
                        CASE c = "location_id" -> location_id
                          [] c = "event_timestamp" -> ts
                          [] c = "hour_sin" -> HourOfDay(ts)
                          [] c = "hour_cos" -> HourOfDay(ts)
                          [] c = "day_of_week" -> DayOfWeek(ts)
                          [] c = "month" -> MonthOf(ts)
                          [] c = "aqi_lag_1" -> Shift(aqi, 1, i)
                          [] c = "aqi_lag_3" -> Shift(aqi, 3, i)
                          [] c = "aqi_lag_24" -> Shift(aqi, 24, i)
                          [] c = "aqi_roll_6" -> RollingPast(aqi, 6, i)
                          [] c = "aqi_roll_24" -> RollingPast(aqi, 24, i)
                          [] c = "pm25_wind_interaction" ->
                                Interaction(r["pm2_5"], r["wind_speed_10m"])
                          [] OTHER -> r[c]])])
    IN  [cols |-> StoredCols(df.cols), rows |-> DropNa(out)]

----------------------------------------------------------------------------
(* The collection *)

Docs(st) == {d \in st : d.location_id = LOCATION_ID}
Keys(st) == {<<d.location_id, d.event_timestamp>> : d \in st}

\* the documents of a set, ascending by event_timestamp (cursor.sort)
ByTime(S) ==
    LET ts == Ascending({d.event_timestamp : d \in S})
    IN  Tup([k \in DOMAIN ts |-> CHOOSE d \in S : d.event_timestamp = ts[k]])

\* faulty variant: an empty collection is taken to end at the epoch
LatestOrEpoch(st) ==
    IF Docs(st) = {} THEN 0 ELSE Max({d.event_timestamp : d \in Docs(st)})

\* _latest_event_timestamp: None (NaN here) when the entity has no document
LatestEventTimestamp(st) ==
    IF Docs(st) = {} THEN NaN ELSE Max({d.event_timestamp : d \in Docs(st)})

\* faulty variant: the query has no lower bound ("$gte" left out)
ReadHistoryUnbounded(st, end_ts_utc, hours) ==
    LET docs == ByTime({d \in Docs(st) : d.event_timestamp < end_ts_utc})
        cols == ((UNION {DOMAIN docs[i] : i \in DOMAIN docs}
                    \ {"_id", "event_timestamp", "location_id"}) \cup {"timestamp"})
    IN  IF docs = <<>> THEN EmptyFrame
        ELSE [cols |-> cols,
              rows |-> Tup([i \in DOMAIN docs |->
                         Rec([c \in cols |->
                            IF c = "timestamp" THEN FloorH(docs[i].event_timestamp)
                            ELSE IF c \in DOMAIN docs[i] THEN docs[i][c] ELSE NaN])])]

\* _read_history_from_mongo(col, end_ts_utc, hours)
ReadHistoryFromMongo(st, end_ts_utc, hours) ==
    LET start_ts_utc == end_ts_utc - Hours(hours)
        docs == ByTime({d \in Docs(st) : /\ d.event_timestamp >= start_ts_utc
                                         /\ d.event_timestamp < end_ts_utc})
        \* the projection {"_id": 0}
        all == UNION {DOMAIN docs[i] : i \in DOMAIN docs} \ {"_id"}
        cols == ((all \ {"event_timestamp"}) \cup {"timestamp"}) \ {"location_id"}
    IN  IF docs = <<>> THEN EmptyFrame
        ELSE [cols |-> cols,
              rows |-> Tup([i \in DOMAIN docs |->
                         Rec([c \in cols |->
                            IF c = "timestamp" THEN FloorH(docs[i].event_timestamp)
                            ELSE IF c \in DOMAIN docs[i] THEN docs[i][c] ELSE NaN])])]

\* faulty variant: the history query includes the hour itself ("$lte")
GetAqiHistoryInclusive(st, end_ts_utc, hours) ==
    LET docs == ByTime({d \in Docs(st) : /\ d.event_timestamp >= end_ts_utc - Hours(hours)
                                         /\ d.event_timestamp <= end_ts_utc})
    IN  Tup([i \in DOMAIN docs |-> docs[i]["us_aqi"]])

\* faulty variant: the last `hours` documents before the hour, however old
GetAqiHistoryLastDocs(st, end_ts_utc, hours) ==
    LET docs == ByTime({d \in Docs(st) : d.event_timestamp < end_ts_utc})
        n == Len(docs)
        tail == SubSeq(docs, IF n > hours THEN n - hours + 1 ELSE 1, n)
    IN  Tup([i \in DOMAIN tail |-> tail[i]["us_aqi"]])

\* _get_aqi_history(col, end_ts_utc, hours=24)
GetAqiHistory(st, end_ts_utc, hours) ==
    LET docs == ByTime({d \in Docs(st) : /\ d.event_timestamp >= end_ts_utc - Hours(hours)
                                         /\ d.event_timestamp < end_ts_utc})
    IN  Tup([i \in DOMAIN docs |-> docs[i]["us_aqi"]])

\* a document as the store inserts it: with an _id no other document has
\* (documents are never deleted)
Inserted(st, r) ==
    Rec([f \in DOMAIN r \cup {"_id"} |-> IF f = "_id" THEN Cardinality(st) + 1 ELSE r[f]])

\* faulty variant: a plain insert instead of an upsert
UpdateOneInsertAlways(st, r) == st \cup {Inserted(st, r)}

\* faulty variant: the entity's documents are replaced by the new one
UpdateOneReplaceAll(st, r) ==
    {d \in st : d.location_id # r.location_id} \cup {Inserted(st, r)}

\* faulty variant: "$setOnInsert", a matching document is left as it is
UpdateOneSetOnInsert(st, r) ==
    IF \E d \in st : d.location_id = r.location_id /\ d.event_timestamp = r.event_timestamp
    THEN st
    ELSE st \cup {Inserted(st, r)}

\* one upsert {"$set": r} filtered on (location_id, event_timestamp): the
\* matching document takes r's fields, or r is inserted
UpdateOneUpsert(st, r) ==
    LET match == {d \in st : /\ d.location_id = r.location_id
                             /\ d.event_timestamp = r.event_timestamp}
    IN  IF match = {} THEN st \cup {Inserted(st, r)}
        ELSE LET d == CHOOSE d \in match : TRUE
             IN  (st \ {d}) \cup
                 {Rec([f \in DOMAIN d \cup DOMAIN r |-> IF f \in DOMAIN r THEN r[f] ELSE d[f]])}

\* whether that upsert inserts or changes a document
\* (res.upserted_count + res.modified_count counts it)
Applies(st, r) == UpdateOneUpsert(st, r) # st

\* col.bulk_write(ops, ordered=False) of one chunk: every operation the store
\* does not reject is applied; a rejected one makes the call raise afterwards
\* (the operations are taken in order, the chunk split in halves)
RECURSIVE BulkWrite(_, _, _)
BulkWrite(st, chunk, rejected) ==
    IF chunk = <<>> THEN [store |-> st, count |-> 0, raised |-> FALSE]
    ELSE IF Len(chunk) = 1
    THEN LET r == chunk[1]
             bad == r.event_timestamp \in rejected
             st1 == IF bad THEN st ELSE UpdateOneUpsert(st, r)
         IN  [store |-> st1,
              count |-> IF st1 # st THEN 1 ELSE 0,
              raised |-> bad]
    ELSE LET m == Len(chunk) \div 2
             a == BulkWrite(st, SubSeq(chunk, 1, m), rejected)
         IN  IF a.raised
             THEN LET b == BulkWrite(a.store, SubSeq(chunk, m + 1, Len(chunk)), rejected)
                  IN  [store |-> b.store, count |-> a.count + b.count, raised |-> TRUE]
             ELSE LET b == BulkWrite(a.store, SubSeq(chunk, m + 1, Len(chunk)), rejected)
                  IN  [store |-> b.store, count |-> a.count + b.count, raised |-> b.raised]

\* _upsert_features(col, df_features): chunks of UPSERT_BATCH_SIZE; a raising
\* bulk_write ends the loop, and the function, with the exception
RECURSIVE UpsertChunks(_, _, _, _)
UpsertChunks(st, records, rejected, total) ==
    IF records = <<>> THEN [store |-> st, total |-> total, raised |-> FALSE]
    ELSE LET n == IF Len(records) < UPSERT_BATCH_SIZE THEN Len(records) ELSE UPSERT_BATCH_SIZE
             res == BulkWrite(st, SubSeq(records, 1, n), rejected)
         IN  IF res.raised THEN [store |-> res.store, total |-> NaN, raised |-> TRUE]
             ELSE UpsertChunks(res.store, SubSeq(records, n + 1, Len(records)),
                               rejected, total + res.count)

\* faulty variant: a raising batch undoes the batches written before it
UpsertFeaturesAtomic(st, df_features, rejected) ==
    LET res == UpsertChunks(st, df_features.rows, rejected, 0)
    IN  IF df_features.rows = <<>> THEN [store |-> st, total |-> 0, raised |-> FALSE]
        ELSE IF res.raised THEN [store |-> st, total |-> NaN, raised |-> TRUE]
        ELSE res

UpsertFeatures(st, df_features, rejected) ==
    IF df_features.rows = <<>> THEN [store |-> st, total |-> 0, raised |-> FALSE]
    ELSE UpsertChunks(st, df_features.rows, rejected, 0)

----------------------------------------------------------------------------
(* The source: src/ingestion/fetch_data.py *)

RawCols == RAW_AIR_COLS \cup RAW_WEATHER_COLS

\* fetch_karachi_aqi_weather(start_date, end_date): the hourly rows of the
\* civil days start_date..end_date, on the Karachi wall clock, ascending
FetchKarachiAqiWeather(src, start_date, end_date) ==
    LET got == {r \in src : DateOf(r.timestamp) >= start_date /\ DateOf(r.timestamp) <= end_date}
        ts == Ascending({r.timestamp : r \in got})
    IN  [cols |-> RawCols \cup {"timestamp"},
         rows |-> Tup([k \in DOMAIN ts |-> CHOOSE r \in got : r.timestamp = ts[k]])]

----------------------------------------------------------------------------
(* What a run leaves behind for the observer *)

\* op: which entry point ran; outcome: where it ended; raised: whether it
\* ended by an exception; written: the count it printed (NaN: none printed);
\* fetches: calls of the source adapter; start, end: the window it resolved
\* (NaN: not resolved); dates: the civil days it asked the adapter for;
\* fresh, hist, toWrite: the hours of the fresh raw rows it kept, of the
\* history rows it read and of the rows it handed to the committer;
\* repeat: the run directly followed a completed run of the same entry
\* point, with the clock and the source unchanged in between
NoRun ==
    [op |-> "none", outcome |-> "none", raised |-> FALSE, written |-> NaN,
     fetches |-> 0, start |-> NaN, end |-> NaN, dates |-> <<>>,
     fresh |-> {}, hist |-> {}, toWrite |-> {}, repeat |-> FALSE]

\* faulty variant: the connection value is not looked at
ConfigUnchecked(e) == FALSE

\* _get_collection / _mongo_collection: os.getenv("MONGODB_URI") is empty
ConfigMissing(e) == ~e.uri

Ended(op, outcome, raised) ==
    [NoRun EXCEPT !.op = op, !.outcome = outcome, !.raised = raised]

----------------------------------------------------------------------------
(* Gap recovery: src/src/hourly_ingestion_catchup.py run() *)

\* faulty variant: the current instant is not floored to the hour
NowUtcUnfloored(t) == ToUtc(ToLocal(t))

\* pd.Timestamp.now(tz=TZ).floor("h").tz_convert("UTC")
NowUtcHour(t) == ToUtc(FloorH(ToLocal(t)))

\* faulty variant: the window starts at the last stored hour, not after it
StartMissingNoStep(last_ts_utc) == FloorH(last_ts_utc)

\* (last_ts_utc + pd.Timedelta(hours=1)).floor("h")
StartMissingUtc(last_ts_utc) == FloorH(last_ts_utc + Hours(1))

\* faulty variant: the wall-clock timestamps are compared with the UTC window
\* as they come
FreshInWindowUnconverted(df_new_raw, start, end) ==
    LET conv == Tup([i \in DOMAIN df_new_raw.rows |->
                   [df_new_raw.rows[i] EXCEPT !["timestamp"] = FloorH(@)]])
    IN  [cols |-> df_new_raw.cols,
         rows |-> SelectSeq(conv, LAMBDA r : r.timestamp >= start /\ r.timestamp <= end)]

\* the fetched frame with its timestamps converted from the Karachi wall
\* clock to naive UTC hours, filtered to the missing window
FreshInWindow(df_new_raw, start, end) ==
    LET conv == Tup([i \in DOMAIN df_new_raw.rows |->
                   [df_new_raw.rows[i] EXCEPT !["timestamp"] = FloorH(ToUtc(@))]])
    IN  [cols |-> df_new_raw.cols,
         rows |-> SelectSeq(conv, LAMBDA r : r.timestamp >= start /\ r.timestamp <= end)]

\* concat, floor to the hour, sort_values("timestamp"),
\* drop_duplicates(subset=["timestamp"], keep="last"): the frames it may give
MergeDedup(df_hist, df_new_raw) ==
    LET all == Concat(df_hist, df_new_raw)
        floored == Tup([i \in DOMAIN all.rows |->
                      [all.rows[i] EXCEPT !["timestamp"] = FloorH(@)]])
    IN  {[cols |-> all.cols, rows |-> DropDuplicatesKeepLast(s, "timestamp")]
            : s \in SortValues(floored, "timestamp")}

\* faulty variant: the engineered frame is committed whole
WindowFilterOff(df_feat, start, end) == df_feat

\* the rows of the engineered frame inside [start, end]
WindowFilter(df_feat, start, end) ==
    [cols |-> df_feat.cols,
     rows |-> SelectSeq(df_feat.rows,
                LAMBDA r : r.event_timestamp >= start /\ r.event_timestamp <= end)]

Hist(df) == {df.rows[i].timestamp : i \in DOMAIN df.rows}
Stamps(df) == {df.rows[i].event_timestamp : i \in DOMAIN df.rows}

\* the sets of hours whose upsert the store may reject, of those it is sent
Rejections(stamps, writes) ==
    IF writes \/ stamps = {} THEN {{}} ELSE (SUBSET stamps) \ {{}}

\* run(), from the merged frame to the frame to write: clean, build, filter
EngineeredToWrite(df_all, start, end) ==
    LET df_clean == clean_aqi_weather_data(df_all)
        df_feat == build_feature_store_rows(df_clean, LOCATION_ID)
    IN  WindowFilter(df_feat, start, end)

\* run(), from the merged frame on: clean, build, filter, commit; one result
\* for every set of hours whose upsert the store may reject
CatchupCommit(st, df_all, start, end, partial, writes) ==
    LET df_to_write == EngineeredToWrite(df_all, start, end)
        Result(rejected) ==
            LET res == UpsertFeatures(st, df_to_write, rejected)
            IN  [store |-> res.store,
                 last |-> [partial EXCEPT
                             !.outcome = IF res.raised THEN "storage_error" ELSE "done",
                             !.raised = res.raised,
                             !.written = res.total,
                             !.toWrite = Stamps(df_to_write)]]
    IN  {Result(rejected) : rejected \in Rejections(Stamps(df_to_write), writes)}

\* run(): every way the run can end for the given collection, clock, source
\* and environment
CatchupRuns(st, t, src, e) ==
    LET now_utc_hour == NowUtcHour(t)
        last_ts_utc == LatestEventTimestamp(st)
        start_missing_utc == StartMissingUtc(last_ts_utc)
        start_date == DateOf(ToLocal(start_missing_utc))
        end_date == DateOf(ToLocal(now_utc_hour))
        resolved == [NoRun EXCEPT !.op = "catchup", !.start = start_missing_utc,
                                  !.end = now_utc_hour]
        fetched == [resolved EXCEPT !.fetches = 1, !.dates = <<start_date, end_date>>]
        df_new_raw == FreshInWindow(FetchKarachiAqiWeather(src, start_date, end_date),
                                    start_missing_utc, now_utc_hour)
        df_hist == ReadHistoryFromMongo(st, start_missing_utc, HISTORY_HOURS_FOR_FEATURES)
        read == [fetched EXCEPT !.fresh = Hist(df_new_raw), !.hist = Hist(df_hist)]
    IN  IF ConfigMissing(e)
        THEN {[store |-> st, last |-> Ended("catchup", "config_error", TRUE)]}
        ELSE IF IsNa(last_ts_utc)
        THEN {[store |-> st, last |-> Ended("catchup", "store_empty", TRUE)]}
        ELSE IF start_missing_utc > now_utc_hour
        THEN {[store |-> st, last |-> [resolved EXCEPT !.outcome = "no_gap"]]}
        ELSE IF ~e.http
        THEN {[store |-> st,
               last |-> [fetched EXCEPT !.outcome = "fetch_error", !.raised = TRUE]]}
        ELSE IF df_new_raw.rows = <<>>
        THEN {[store |-> st, last |-> [fetched EXCEPT !.outcome = "no_rows"]]}
        ELSE UNION {CatchupCommit(st, df_all, start_missing_utc, now_utc_hour, read, e.writes)
                      : df_all \in MergeDedup(df_hist, df_new_raw)}

----------------------------------------------------------------------------
(* The current hour: src/src/hourly_ingestion.py run() *)

\* _fetch_exact_hour_row(ts_local_hour): the rows of the day's frame whose
\* timestamp is the hour
FetchExactHourRow(src, ts_local_hour) ==
    LET day == DateOf(ts_local_hour)
        df == FetchKarachiAqiWeather(src, day, day)
    IN  SelectSeq(SortUnique(df.rows, "timestamp"), LAMBDA r : r.timestamp = ts_local_hour)

\* hist_24[-6:]
LastN(xs, n) == SubSeq(xs, IF Len(xs) > n THEN Len(xs) - n + 1 ELSE 1, Len(xs))

\* faulty variant: the 24-hour mean is taken over the last 6 values
HistoryFeaturesShortRoll(hist_24) ==
    [aqi_lag_1 |-> hist_24[Len(hist_24)],
     aqi_lag_3 |-> hist_24[Len(hist_24) - 2],
     aqi_lag_24 |-> hist_24[1],
     aqi_roll_6 |-> Mean(LastN(hist_24, 6)),
     aqi_roll_24 |-> Mean(LastN(hist_24, 6))]

\* the lag and rolling fields _build_feature_doc takes from the history
HistoryFeatures(hist_24) ==
    [aqi_lag_1 |-> hist_24[Len(hist_24)],
     aqi_lag_3 |-> hist_24[Len(hist_24) - 2],
     aqi_lag_24 |-> hist_24[1],
     aqi_roll_6 |-> Mean(LastN(hist_24, 6)),
     aqi_roll_24 |-> Mean(hist_24)]

\* the fields _build_feature_doc refuses to write without
Critical == {"us_aqi", "pm2_5", "wind_speed_10m"}

\* faulty variant: the guardrail on the critical fields is left out
CriticalIgnored(raw_row) == FALSE

\* the guardrail of _build_feature_doc: a critical value is None
CriticalMissing(raw_row) == \E c \in Critical : IsNa(raw_row[c])

\* _build_feature_doc(raw_row, col): the document, or the error it raises
BuildFeatureDoc(raw_row, st) ==
    LET ts_local == FloorH(raw_row.timestamp)
        ts_utc == ToUtc(ts_local)
        hist_24 == GetAqiHistory(st, ts_utc, 24)
        feats == HistoryFeatures(hist_24)
        cols == StoredCols(FlagCols)
        doc == Rec([c \in cols |->
                  CASE c = "location_id" -> LOCATION_ID
                    [] c = "event_timestamp" -> ts_utc
                    [] c \in RawCols -> raw_row[c]
                    [] c \in FlagCols ->
                          LET r == CHOOSE r \in RawCols : c = FlagCol(r)
                          IN  IF IsNa(raw_row[r]) THEN 1 ELSE 0
                    [] c = "hour_sin" -> HourOfDay(ts_local)
                    [] c = "hour_cos" -> HourOfDay(ts_local)
                    [] c = "day_of_week" -> DayOfWeek(ts_local)
                    [] c = "month" -> MonthOf(ts_local)
                    [] c = "pm25_wind_interaction" ->
                          Interaction(raw_row["pm2_5"], raw_row["wind_speed_10m"])
                    [] OTHER -> feats[c]])
    IN  IF CriticalMissing(raw_row) THEN [error |-> "critical_missing"]
        ELSE IF Len(hist_24) < 24 THEN [error |-> "insufficient_history"]
        ELSE [error |-> "none", doc |-> doc]

\* faulty variant: the fetched row is upserted as soon as it is fetched, and
\* the document is built and validated afterwards
HourlyRunWritesEarly(st, t, src, e) ==
    LET now_local == FloorH(ToLocal(t))
        row == FetchExactHourRow(src, now_local)
        early == Rec([c \in StoredCols(FlagCols) |->
                    CASE c = "location_id" -> LOCATION_ID
                      [] c = "event_timestamp" -> ToUtc(now_local)
                      [] c \in RawCols -> row[1][c]
                      [] OTHER -> NaN])
        st1 == UpdateOneUpsert(st, early)
        built == BuildFeatureDoc(row[1], st)
        fetched == [NoRun EXCEPT !.op = "hourly", !.fetches = 1,
                                 !.dates = <<DateOf(now_local), DateOf(now_local)>>]
        Fail(why, s) == [store |-> s,
                         last |-> [fetched EXCEPT !.outcome = why, !.raised = TRUE]]
    IN  IF ConfigMissing(e)
        THEN [store |-> st, last |-> Ended("hourly", "config_error", TRUE)]
        ELSE IF ~e.http THEN Fail("fetch_error", st)
        ELSE IF row = <<>> THEN Fail("no_rows", st)
        ELSE IF built.error # "none" THEN Fail(built.error, st1)
        ELSE IF ~e.writes THEN Fail("storage_error", st1)
        ELSE [store |-> UpdateOneUpsert(st1, built.doc),
              last |-> [fetched EXCEPT !.outcome = "done",
                                       !.toWrite = {built.doc.event_timestamp}]]

\* run(): how the run ends for the given collection, clock, source and
\* environment
HourlyRun(st, t, src, e) ==
    LET now_local == FloorH(ToLocal(t))
        row == FetchExactHourRow(src, now_local)
        built == BuildFeatureDoc(row[1], st)
        fetched == [NoRun EXCEPT !.op = "hourly", !.fetches = 1,
                                 !.dates = <<DateOf(now_local), DateOf(now_local)>>]
        Fail(why) == [store |-> st,
                      last |-> [fetched EXCEPT !.outcome = why, !.raised = TRUE]]
    IN  IF ConfigMissing(e)
        THEN [store |-> st, last |-> Ended("hourly", "config_error", TRUE)]
        ELSE IF ~e.http THEN Fail("fetch_error")
        ELSE IF row = <<>> THEN Fail("no_rows")
        ELSE IF built.error # "none" THEN Fail(built.error)
        ELSE IF ~e.writes THEN Fail("storage_error")
        ELSE [store |-> UpdateOneUpsert(st, built.doc),
              last |-> [fetched EXCEPT !.outcome = "done",
                                       !.toWrite = {built.doc.event_timestamp}]]

----------------------------------------------------------------------------
(* The initial collection and source *)

\* the last hour the one-time backfill covered: 1970-01-31 17:00 UTC, which
\* is 22:00 in Karachi, so that the hours after it cross the local midnight
\* into February
LastBackfilledHour == Hours((30 * 24) + 17)

\* the raw observation of an hour (a naive UTC timestamp)
RawRow(t) ==
    LET k == t \div 60
    IN  [timestamp |-> t,
         us_aqi |-> 40 + ((k * k) % 11),
         pm2_5 |-> 10 + (k % 4),
         pm10 |-> 20 + (k % 3),
         temperature_2m |-> 25 + (k % 5),
         wind_speed_10m |-> k % 6]

\* the collection the one-time backfill leaves: the engineered rows of the
\* cleaned raw series of the n + 24 hours up to LastBackfilledHour, which
\* are n documents (the builder drops the first 24)
BackfilledStore(n) ==
    IF n = 0 THEN {}
    ELSE LET raw == [cols |-> RawCols \cup {"timestamp"},
                     rows |-> Tup([i \in 1..(n + 24) |->
                                 RawRow(LastBackfilledHour - Hours(n + 24 - i))])]
             rows == build_feature_store_rows(clean_aqi_weather_data(raw), LOCATION_ID).rows
         IN  {Rec([f \in DOMAIN rows[i] \cup {"_id"} |->
                     IF f = "_id" THEN i ELSE rows[i][f]]) : i \in DOMAIN rows}

\* the hours the source is asked about: the last backfilled hour and the
\* MaxAhead hours after it
SourceHours == {LastBackfilledHour + Hours(k) : k \in 0..MaxAhead}

\* the source's row for an hour, on the Karachi wall clock
SourceRow(t) == [RawRow(t) EXCEPT !.timestamp = ToLocal(t)]

\* a source that deviates from complete data at hour t: it has no row, or a
\* null in the column named
Deviate(src, t, kind) ==
    IF kind = "absent" THEN {r \in src : r.timestamp # ToLocal(t)}
    ELSE {IF r.timestamp = ToLocal(t) THEN [r EXCEPT ![kind] = NaN] ELSE r : r \in src}

CompleteSource == {SourceRow(t) : t \in SourceHours}

\* the sources a behaviour may start with: complete, empty, or deviating at
\* the second hour after the backfill
Sources ==
    {CompleteSource, {}}
    \cup {Deviate(CompleteSource, LastBackfilledHour + Hours(2), kind) :
            kind \in {"absent", "us_aqi", "pm10", "wind_speed_10m"}}

\* an environment in which nothing fails, and those with one thing failing
EnvOk == [uri |-> TRUE, http |-> TRUE, writes |-> TRUE]
EnvBroken == {[EnvOk EXCEPT ![k] = FALSE] : k \in {"uri", "http", "writes"}}

\* the collections, sources and environments a behaviour may start from
Starts ==
    {<<MidHist, src, EnvOk>> : src \in Sources}
    \cup {<<n, CompleteSource, EnvOk>> : n \in {0, ShortHist, LongHist}}
    \cup {<<MidHist, CompleteSource, e>> : e \in EnvBroken}

NoMerge == [df_hist |-> EmptyFrame, df_new_raw |-> EmptyFrame,
            df_all |-> EmptyFrame, merged |-> FALSE]

\* two runs, neither started
NoRuns ==
    [proc |-> [i \in 1..2 |-> [op |-> "none", pc |-> "idle", pending |-> <<>>]],
     applied |-> {}]

NoPipe == [df_raw |-> EmptyFrame, df_clean |-> EmptyFrame,
           df_feat |-> EmptyFrame, built |-> FALSE]

NoCommit == [df_feat |-> EmptyFrame, start |-> NaN, end |-> NaN, rejected |-> {},
             toWrite |-> {}, total |-> NaN, raised |-> FALSE, done |-> FALSE]

Init ==
    /\ \E s \in Starts :
          /\ store = BackfilledStore(s[1])
          /\ source = s[2]
          /\ env = s[3]
    /\ now = LastBackfilledHour
    /\ revised = FALSE
    /\ pre = store
    /\ last = NoRun
    /\ dedup = NoMerge
    /\ commit = NoCommit
    /\ runs = NoRuns
    /\ pipe = NoPipe

----------------------------------------------------------------------------
(* Actions *)

\* the wall clock advances by 50 minutes, so that it passes through every
\* hour and is mostly not on the hour
Tick ==
    /\ FloorH(now + 50) <= LastBackfilledHour + Hours(MaxAhead)
    /\ now' = now + 50
    /\ pre' = store
    /\ last' = NoRun
    /\ UNCHANGED <<store, source, revised, env, parts>>

\* the source revises, once, the target signal it published for the current
\* hour
SourceRevises ==
    /\ ~revised
    /\ \E r \in source :
          /\ r.timestamp = FloorH(ToLocal(now))
          /\ source' = (source \ {r}) \cup
                {[r EXCEPT !.us_aqi = RawRow(ToUtc(r.timestamp)).us_aqi + 1]}
    /\ revised' = TRUE
    /\ pre' = store
    /\ last' = NoRun
    /\ UNCHANGED <<store, now, env, parts>>

\* what failed in the environment is repaired
Repair ==
    /\ env # EnvOk
    /\ env' = EnvOk
    /\ pre' = store
    /\ last' = NoRun
    /\ UNCHANGED <<store, now, source, revised, parts>>

Repeats(op) == last.op = op /\ ~last.raised

\* one run of hourly_ingestion_catchup.py
Catchup ==
    /\ \E res \in CatchupRuns(store, now, source, env) :
          /\ store' = res.store
          /\ last' = [res.last EXCEPT !.repeat = Repeats("catchup")]
    /\ pre' = store
    /\ UNCHANGED <<now, source, revised, env, parts>>

\* one run of hourly_ingestion.py
Hourly ==
    /\ LET res == HourlyRun(store, now, source, env)
       IN  /\ store' = res.store
           /\ last' = [res.last EXCEPT !.repeat = Repeats("hourly")]
    /\ pre' = store
    /\ UNCHANGED <<now, source, revised, env, parts>>

Next == Tick \/ SourceRevises \/ Repair \/ Catchup \/ Hourly

Spec == Init /\ [][Next]_vars

----------------------------------------------------------------------------
(* The merge step of the catch-up run, on frames of its own *)

\* a history row as _read_history_from_mongo gives it: a raw column and a
\* derived one
HistRow(h) ==
    [timestamp |-> Hours(h),
     us_aqi |-> RawRow(Hours(h)).us_aqi,
     aqi_lag_1 |-> RawRow(Hours(h - 1)).us_aqi]

\* a freshly fetched row: raw columns only, the value a revised one
FreshRow(h) ==
    [timestamp |-> Hours(h), us_aqi |-> RawRow(Hours(h)).us_aqi + 1]

\* the history frame for the hours of H, ascending as the query sorts it
HistFrame(H) ==
    LET hs == Ascending(H)
    IN  [cols |-> {"timestamp", "us_aqi", "aqi_lag_1"},
         rows |-> Tup([i \in DOMAIN hs |-> HistRow(hs[i])])]

\* the fetched frame for the hours of F, ascending as the source gives it
FreshFrame(F) ==
    LET hs == Ascending(F)
    IN  [cols |-> {"timestamp", "us_aqi"},
         rows |-> Tup([i \in DOMAIN hs |-> FreshRow(hs[i])])]

InitDedup ==
    /\ store = {}
    /\ now = 0
    /\ source = {}
    /\ revised = FALSE
    /\ env = EnvOk
    /\ pre = {}
    /\ last = NoRun
    /\ \E H \in SUBSET (1..MaxMergeHours), F \in SUBSET (1..MaxMergeHours) :
          dedup = [df_hist |-> HistFrame(H),
                   df_new_raw |-> FreshFrame(F),
                   df_all |-> EmptyFrame,
                   merged |-> FALSE]
    /\ commit = NoCommit
    /\ runs = NoRuns
    /\ pipe = NoPipe

\* lines 175-180 of run(): concat, floor, sort_values, drop_duplicates
Merge ==
    /\ ~dedup.merged
    /\ \E df_all \in MergeDedup(dedup.df_hist, dedup.df_new_raw) :
          dedup' = [dedup EXCEPT !.df_all = df_all, !.merged = TRUE]
    /\ UNCHANGED <<store, now, source, revised, env, pre, last, commit, runs, pipe>>

NextDedup == Merge

SpecDedup == InitDedup /\ [][NextDedup]_vars

----------------------------------------------------------------------------
(* The window filter and the committer of the catch-up run, on frames of
   their own: lines 202-212 of run() *)

\* an engineered row for hour h, as the builder recomputes it (the values
\* differ from the stored ones)
FeatRow(h) ==
    [location_id |-> LOCATION_ID,
     event_timestamp |-> Hours(h),
     us_aqi |-> RawRow(Hours(h)).us_aqi + 1,
     aqi_lag_1 |-> RawRow(Hours(h - 1)).us_aqi + 1]

\* the document the collection holds for hour h
StoredDoc(h) ==
    [_id |-> h,
     location_id |-> LOCATION_ID,
     event_timestamp |-> Hours(h),
     us_aqi |-> RawRow(Hours(h)).us_aqi,
     aqi_lag_1 |-> RawRow(Hours(h - 1)).us_aqi]

\* the engineered frame for the hours 1..n
FeatFrame(n) ==
    [cols |-> {"location_id", "event_timestamp", "us_aqi", "aqi_lag_1"},
     rows |-> Tup([h \in 1..n |-> FeatRow(h)])]

\* the window lengths tried: short ones, and ones that need two batches
WindowLengths == (0..MaxWindow) \cup {UPSERT_BATCH_SIZE + 1, UPSERT_BATCH_SIZE + 2}

\* the sets of hours the store may reject, for c context rows and a window
\* of w rows: any of a short window, one chosen hour of a long one
RejectedSets(c, w) ==
    IF w <= MaxWindow THEN SUBSET {Hours(c + k) : k \in 1..w}
    ELSE {{}} \cup {{Hours(c + k)} : k \in {1, UPSERT_BATCH_SIZE, UPSERT_BATCH_SIZE + 1, w}}

\* c rows of context, a window of w rows, e rows past it; the collection
\* holds the context hours and, with overlap, the first hour of the window
InitCommit ==
    /\ now = 0
    /\ source = {}
    /\ revised = FALSE
    /\ env = EnvOk
    /\ last = NoRun
    /\ dedup = NoMerge
    /\ runs = NoRuns
    /\ pipe = NoPipe
    /\ \E c \in 0..MaxContext, w \in WindowLengths, e \in 0..MaxBeyond, overlap \in BOOLEAN :
          /\ w > MaxWindow => (c = 1 /\ e = 0 /\ ~overlap)
          /\ overlap => w >= 1
          /\ store = {StoredDoc(h) : h \in 1..(IF overlap THEN c + 1 ELSE c)}
          /\ \E rejected \in RejectedSets(c, w) :
                commit = [NoCommit EXCEPT !.df_feat = FeatFrame(c + w + e),
                                          !.start = Hours(c + 1),
                                          !.end = Hours(c + w),
                                          !.rejected = rejected]
    /\ pre = store

\* df_to_write = df_feat[(event_timestamp >= start) & (event_timestamp <= end)];
\* written = _upsert_features(col, df_to_write)
FilterAndUpsert ==
    /\ ~commit.done
    /\ LET df_to_write == WindowFilter(commit.df_feat, commit.start, commit.end)
           res == UpsertFeatures(store, df_to_write, commit.rejected)
       IN  /\ store' = res.store
           /\ commit' = [commit EXCEPT !.toWrite = Stamps(df_to_write),
                                       !.total = res.total,
                                       !.raised = res.raised,
                                       !.done = TRUE]
    /\ pre' = store
    /\ UNCHANGED <<now, source, revised, env, last, dedup, runs, pipe>>

NextCommit == FilterAndUpsert

SpecCommit == InitCommit /\ [][NextCommit]_vars

----------------------------------------------------------------------------
(* Two runs at once. A run reads (the clock, the source, the collection) and
   then sends its upserts one by one; the steps of two runs interleave, and
   the clock and the source may move in between. The store applies each
   upsert atomically, under its unique index on (location_id,
   event_timestamp). *)

\* run i moves to pc with the upserts it has still to send
Proceeds(i, op, pc, pending) ==
    runs' = [runs EXCEPT !.proc[i] = [op |-> op, pc |-> pc, pending |-> pending]]

\* hourly_ingestion.run() up to its update_one
BeginHourly(i) ==
    /\ runs.proc[i].pc = "idle"
    /\ LET row == FetchExactHourRow(source, FloorH(ToLocal(now)))
           built == BuildFeatureDoc(row[1], store)
       IN  IF row = <<>> THEN Proceeds(i, "hourly", "failed", <<>>)
           ELSE IF built.error # "none" THEN Proceeds(i, "hourly", "failed", <<>>)
           ELSE Proceeds(i, "hourly", "ready", <<built.doc>>)
    /\ UNCHANGED <<store, now, source, revised, env, pre, last, dedup, commit, pipe>>

\* hourly_ingestion_catchup.run() up to its _upsert_features
BeginCatchup(i) ==
    /\ runs.proc[i].pc = "idle"
    /\ LET last_ts_utc == LatestEventTimestamp(store)
           start == StartMissingUtc(last_ts_utc)
           end == NowUtcHour(now)
           df_new_raw == FreshInWindow(
                            FetchKarachiAqiWeather(source, DateOf(ToLocal(start)),
                                                   DateOf(ToLocal(end))),
                            start, end)
           df_hist == ReadHistoryFromMongo(store, start, HISTORY_HOURS_FOR_FEATURES)
       IN  IF IsNa(last_ts_utc) THEN Proceeds(i, "catchup", "failed", <<>>)
           ELSE IF start > end \/ df_new_raw.rows = <<>>
           THEN Proceeds(i, "catchup", "done", <<>>)
           ELSE \E df_all \in MergeDedup(df_hist, df_new_raw) :
                   LET rows == EngineeredToWrite(df_all, start, end).rows
                   IN  Proceeds(i, "catchup", IF rows = <<>> THEN "done" ELSE "ready", rows)
    /\ UNCHANGED <<store, now, source, revised, env, pre, last, dedup, commit, pipe>>

\* the store applies the next upsert of run i
Write(i) ==
    /\ runs.proc[i].pc = "ready"
    /\ LET r == Head(runs.proc[i].pending)
           rest == Tail(runs.proc[i].pending)
       IN  /\ store' = UpdateOneUpsert(store, r)
           /\ runs' = [runs EXCEPT
                         !.proc[i].pending = rest,
                         !.proc[i].pc = IF rest = <<>> THEN "done" ELSE "ready",
                         !.applied = {a \in @ : a.event_timestamp # r.event_timestamp}
                                        \cup {r}]
    /\ pre' = store
    /\ UNCHANGED <<now, source, revised, env, last, dedup, commit, pipe>>

InitConcurrent ==
    /\ store = BackfilledStore(MidHist)
    /\ source \in Sources
    /\ env = EnvOk
    /\ now = LastBackfilledHour
    /\ revised = FALSE
    /\ pre = store
    /\ last = NoRun
    /\ dedup = NoMerge
    /\ commit = NoCommit
    /\ runs = NoRuns
    /\ pipe = NoPipe

NextConcurrent ==
    \/ Tick
    \/ SourceRevises
    \/ \E i \in 1..2 : BeginHourly(i) \/ BeginCatchup(i) \/ Write(i)

SpecConcurrent == InitConcurrent /\ [][NextConcurrent]_vars

----------------------------------------------------------------------------
(* The cleaner followed by the builder, on raw frames of their own: lines
   187 and 195 of run() *)

\* where a raw frame may deviate from complete data: at one of the last
\* hours, the row absent or one of its cells null
Deviations ==
    {<<h, kind>> : h \in 24..MaxPipeHours,
                   kind \in {"absent", "us_aqi", "pm10", "temperature_2m"}}

\* the raw frame of the hours 1..MaxPipeHours with the deviations of D
RawFrame(D) ==
    LET present == {h \in 1..MaxPipeHours : <<h, "absent">> \notin D}
        hs == Ascending(present)
    IN  [cols |-> RawCols \cup {"timestamp"},
         rows |-> Tup([i \in DOMAIN hs |->
                    Rec([c \in RawCols \cup {"timestamp"} |->
                       IF <<hs[i], c>> \in D THEN NaN ELSE RawRow(Hours(hs[i]))[c]])])]

\* a raw frame with up to two deviations
InitPipeline ==
    /\ store = {}
    /\ now = 0
    /\ source = {}
    /\ revised = FALSE
    /\ env = EnvOk
    /\ pre = {}
    /\ last = NoRun
    /\ dedup = NoMerge
    /\ commit = NoCommit
    /\ runs = NoRuns
    /\ \E D \in {{}} \cup {{d1, d2} : d1 \in Deviations, d2 \in Deviations} :
          pipe = [NoPipe EXCEPT !.df_raw = RawFrame(D)]

\* df_clean = clean_aqi_weather_data(df_all);
\* df_feat = build_feature_store_rows(df_clean, location_id=LOCATION_ID)
CleanAndBuild ==
    /\ ~pipe.built
    /\ LET df_clean == clean_aqi_weather_data(pipe.df_raw)
       IN  pipe' = [pipe EXCEPT !.df_clean = df_clean,
                               !.df_feat = build_feature_store_rows(df_clean, LOCATION_ID),
                               !.built = TRUE]
    /\ UNCHANGED <<store, now, source, revised, env, pre, last, dedup, commit, runs>>

NextPipeline == CleanAndBuild

SpecPipeline == InitPipeline /\ [][NextPipeline]_vars

----------------------------------------------------------------------------
(* Properties *)

Times(st) == {d.event_timestamp : d \in st}
CurrentHour == now - (now % 60)

\* the collection holds a document for each of the n hours up to t
TrailingHours(st, t, n) ==
    \A k \in 0..(n - 1) : \E d \in st : d.event_timestamp = t - Hours(k)

\* the source holds a row without nulls for every hour of (a, b]
CompleteFor(src, a, b) ==
    \A k \in 1..((b - a) \div 60) :
        \E r \in src : r.timestamp = a + Hours(k) + TZ /\ ~HasNa(r)

\* C1 (gap-exactness): from a collection whose latest hour is T, with the 72
\* hours up to T persisted as full feature records, a current hour of T+3
\* and a source complete for (T, T+3], one catch-up run writes exactly 3
\* records, for the hours T+1, T+2 and T+3.
C1_GapExactness ==
    LET T == Max(Times(pre))
    IN  (/\ last.op = "catchup"
         /\ env = EnvOk
         /\ pre # {}
         /\ CurrentHour = T + Hours(3)
         /\ TrailingHours(pre, T, 72)
         /\ CompleteFor(source, T, T + Hours(3)))
        => /\ last.written = 3
           /\ Times(store) \ Times(pre) = {T + Hours(k) : k \in 1..3}

\* C2 (idempotence): a run that directly follows a completed run of the same
\* entry point, with the clock and the source unchanged in between, leaves
\* the collection as it found it, and a catch-up run that reports a count
\* reports zero rows.
C2_Idempotence ==
    (last.repeat /\ ~last.raised)
        => /\ store = pre
           /\ last.op = "catchup" => last.written \in {0, NaN}

C2_Witness ==
    /\ last.repeat /\ ~last.raised
    /\ \/ last.op = "catchup" /\ last.outcome = "done" /\ last.written = 0
       \/ last.op = "hourly" /\ last.outcome = "done"

\* C3 (uniqueness): the collection never holds two documents of one
\* (location_id, event_timestamp).
C3_Uniqueness ==
    \A d1, d2 \in store :
        (d1.location_id = d2.location_id /\ d1.event_timestamp = d2.event_timestamp)
            => d1 = d2

\* a run has written the hour of a document that was already there
C3_Witness ==
    /\ last.outcome = "done"
    /\ last.toWrite # {}
    /\ last.toWrite \subseteq Times(pre)

\* C4 (no-op window): when the latest persisted hour is the current hour or
\* later, a catch-up run that reaches its collection calls the source zero
\* times, writes nothing, leaves the collection unchanged and returns
\* normally.
C4_NoOpWindow ==
    (/\ last.op = "catchup"
     /\ env.uri
     /\ pre # {}
     /\ Max(Times(pre)) >= CurrentHour)
        => /\ last.outcome = "no_gap"
           /\ ~last.raised
           /\ last.fetches = 0
           /\ last.toWrite = {}
           /\ store = pre

C4_Witness ==
    /\ last.op = "catchup"
    /\ last.outcome = "no_gap"
    /\ Max(Times(pre)) = CurrentHour
    /\ now # CurrentHour

\* C5 (empty-store precondition): with no document for the entity, a
\* catch-up run that reaches its collection raises before it fetches and
\* before it writes; it resolves no window and the collection stays empty.
C5_EmptyStoreAborts ==
    (last.op = "catchup" /\ env.uri /\ pre = {})
        => /\ last.raised
           /\ last.outcome = "store_empty"
           /\ last.fetches = 0
           /\ last.start = NaN /\ last.end = NaN
           /\ store = {}

C5_Witness == last.op = "catchup" /\ last.outcome = "store_empty" /\ store = {}

\* the hour a run is to write first: the current hour (single-hour
\* ingestion), the hour after the latest persisted one (catch-up)
FirstHour == IF last.op = "hourly" THEN CurrentHour ELSE Max(Times(pre)) + Hours(1)

\* C6 (insufficient-history rejection): when fewer than 24 persisted hours
\* precede the first hour a run is to write, the run writes nothing and ends
\* in an insufficient-history failure raised to the caller.
C6_InsufficientHistoryRaises ==
    (/\ last.op \in {"catchup", "hourly"}
     /\ env = EnvOk
     /\ pre # {}
     /\ FirstHour <= CurrentHour
     /\ CompleteFor(source, FirstHour - Hours(1), CurrentHour)
     /\ Cardinality({t \in Times(pre) : t >= FirstHour - Hours(24) /\ t < FirstHour}) < 24)
        => /\ last.raised
           /\ last.outcome = "insufficient_history"
           /\ store = pre

\* C7 (causality of roll_24): for every document that has at least 24
\* documents before it, aqi_roll_24 is the mean of us_aqi over the 24
\* documents immediately before it in timestamp order.
C7_Roll24Causal ==
    LET docs == ByTime(Docs(store))
    IN  \A i \in DOMAIN docs :
            i > 24 => docs[i]["aqi_roll_24"] * 24
                        = 24 * Sum([k \in 1..24 |-> docs[i - 25 + k]["us_aqi"]])

\* the single-hour ingestion has written a document with 24 before it
C7_Witness ==
    /\ last.op = "hourly"
    /\ last.outcome = "done"
    /\ \E t \in last.toWrite : Cardinality({u \in Times(store) : u < t}) >= 24

C9_MonotonicStorage == [][Keys(store) \subseteq Keys(store')]_vars

\* a run has overwritten a document in place and the keys are all still there
C9_Witness ==
    /\ last.outcome = "done"
    /\ store # pre
    /\ Keys(store) = Keys(pre)

\* C10 (window resolution): the window a catch-up run resolves starts one
\* hour after the latest persisted hour and ends at the current instant
\* floored to the hour, both in UTC.
C10_WindowResolution ==
    (last.op = "catchup" /\ last.start # NaN)
        => /\ last.start = Max(Times(pre)) + 60
           /\ last.end = CurrentHour

C10_Witness ==
    /\ last.op = "catchup"
    /\ last.start # NaN
    /\ last.start <= last.end
    /\ now # CurrentHour

\* C11 (window filter): every record handed to the committer has its
\* event_timestamp inside [start, end], and every document the collection
\* held for an hour before start is still in it, unchanged, after the commit.
C11_WindowFilter ==
    commit.done =>
        /\ \A t \in commit.toWrite : t >= commit.start /\ t <= commit.end
        /\ \A d \in pre : d.event_timestamp < commit.start => d \in store

\* a commit of a non-empty window from a frame that also holds recomputed
\* rows for stored context hours and rows past the window
C11_Witness ==
    /\ commit.done
    /\ ~commit.raised
    /\ commit.toWrite # {}
    /\ \E d \in pre, i \in DOMAIN commit.df_feat.rows :
          /\ d.event_timestamp < commit.start
          /\ commit.df_feat.rows[i].event_timestamp = d.event_timestamp
          /\ commit.df_feat.rows[i].us_aqi # d.us_aqi
    /\ \E i \in DOMAIN commit.df_feat.rows :
          commit.df_feat.rows[i].event_timestamp > commit.end

\* the source holds no row for any hour of the window a catch-up run resolved
NoRowsInWindow ==
    \A r \in source :
        FloorH(ToUtc(r.timestamp)) < last.start \/ FloorH(ToUtc(r.timestamp)) > last.end

\* C12 (source unavailable is non-fatal): a catch-up run with a non-empty
\* window whose fetch fails, or finds no row of the window at the source,
\* returns without raising, hands nothing to the committer and leaves the
\* collection as it was.
C12_SourceUnavailableNonFatal ==
    (/\ last.op = "catchup"
     /\ last.start # NaN
     /\ last.start <= last.end
     /\ (~env.http \/ NoRowsInWindow))
        => /\ ~last.raised
           /\ last.toWrite = {}
           /\ store = pre

\* the source's rows for the UTC hour t
SourceAt(t) == {r \in source : FloorH(ToUtc(r.timestamp)) = t}

ToWriteRows == WindowFilter(commit.df_feat, commit.start, commit.end).rows
BatchOf(i) == ((i - 1) \div UPSERT_BATCH_SIZE) + 1
FailedBatch ==
    LET rows == ToWriteRows
        bad == {i \in DOMAIN rows : rows[i].event_timestamp \in commit.rejected}
    IN  IF bad = {} THEN 0 ELSE BatchOf(Min(bad))
\* the collection holds r's key with r's values
Persisted(r) ==
    \E d \in store : /\ d.location_id = r.location_id
                     /\ d.event_timestamp = r.event_timestamp
                     /\ \A f \in DOMAIN r : d[f] = r[f]

\* C14 (batch independence): when the store rejects a write of batch k,
\* every record of the batches before k is in the collection with the
\* values written.
C14_BatchIndependence ==
    (commit.done /\ FailedBatch > 0)
        => LET rows == ToWriteRows
               k == FailedBatch
           IN  \A i \in DOMAIN rows : BatchOf(i) < k => Persisted(rows[i])

\* the store rejected a write of the second batch after a first batch of
\* UPSERT_BATCH_SIZE records
C14_Witness ==
    /\ commit.done
    /\ commit.raised
    /\ FailedBatch = 2
    /\ Cardinality(store \ pre) >= UPSERT_BATCH_SIZE

\* C15 (storage errors are batch-scoped, partial success): when the store
\* rejects a write, the committer still applies every record it does not
\* reject, in every batch, and returns the count of the rows applied instead
\* of raising.
C15_PartialSuccess ==
    (commit.done /\ FailedBatch > 0)
        => LET rows == ToWriteRows
           IN  /\ ~commit.raised
               /\ commit.total = Cardinality(store \ pre)
               /\ \A i \in DOMAIN rows :
                     rows[i].event_timestamp \notin commit.rejected => Persisted(rows[i])

\* C16 (alignment failure is not a silent success): a catch-up run that kept
\* raw rows of the window from the source and was left with no engineered
\* row inside the window does not end in the outcome of a successful commit.
C16_AlignmentFailureReported ==
    (/\ last.op = "catchup"
     /\ last.fresh # {}
     /\ last.toWrite = {})
        => last.outcome # "done"

\* C17 (concurrent runs): with two runs interleaved in any way, the
\* collection never holds two documents of one (location_id,
\* event_timestamp), and for every hour an upsert was applied to, the
\* document of that hour has exactly the fields and values of the upsert
\* applied last.
C17_ConcurrentRunsSafe ==
    /\ \A d1, d2 \in store :
          (d1.location_id = d2.location_id /\ d1.event_timestamp = d2.event_timestamp)
              => d1 = d2
    /\ \A a \in runs.applied :
          \E d \in store :
              /\ d.event_timestamp = a.event_timestamp
              /\ DOMAIN d = DOMAIN a \cup {"_id"}
              /\ \A f \in DOMAIN a : d[f] = a[f]

\* both runs read the same hour, the source revising it in between, and
\* the run that read first wrote last: the document holds the older value
C17_Witness ==
    /\ runs.proc[1].pc = "done" /\ runs.proc[2].pc = "done"
    /\ runs.proc[1].op = "hourly" /\ runs.proc[2].op = "hourly"
    /\ revised
    /\ \E a \in runs.applied : \E r \in SourceAt(a.event_timestamp) :
          r.us_aqi # a.us_aqi
    /\ Cardinality(runs.applied) = 1

\* C18 (configuration error aborts before any I/O): with MONGODB_URI absent,
\* a run of either entry point raises a configuration error without having
\* called the source, read the collection or written to it.
C18_ConfigErrorBeforeIO ==
    (last.op \in {"catchup", "hourly"} /\ ~env.uri)
        => /\ last.raised
           /\ last.outcome = "config_error"
           /\ last.fetches = 0
           /\ last.start = NaN
           /\ last.hist = {}
           /\ last.toWrite = {}
           /\ store = pre

C18_Witness ==
    /\ last.op = "hourly"
    /\ ~env.uri
    /\ last.outcome = "config_error"
    /\ \E r \in SourceAt(CurrentHour) : TRUE

\* the documents the collection held, when the last run started, for the
\* hours of [t - h hours, t)
Trailing(t, h) ==
    {d \in Docs(pre) : d.event_timestamp >= t - Hours(h) /\ d.event_timestamp < t}

\* C19 (history read bound): the history a catch-up run reads is exactly the
\* persisted hours of [start - 72 h, start); the history a single-hour run
\* reads for hour t is exactly the persisted records of [t - 24 h, t), as
\* the mean it stores shows; neither holds a record of start (of t) or later.
C19_HistoryReadBound ==
    /\ (last.op = "catchup" /\ last.outcome \in {"done", "storage_error"})
          => last.hist = {d.event_timestamp : d \in Trailing(last.start, 72)}
    /\ (last.op = "hourly" /\ last.outcome = "done")
          => \A d \in store :
                d.event_timestamp = CurrentHour =>
                   LET docs == ByTime(Trailing(CurrentHour, 24))
                   IN  d.aqi_roll_24 = Mean([i \in DOMAIN docs |-> docs[i].us_aqi])

\* a catch-up run has read 72 hours of a longer collection
C19_Witness ==
    /\ last.op = "catchup"
    /\ last.outcome = "done"
    /\ Cardinality(last.hist) = 72
    /\ Cardinality(Docs(pre)) > 72

\* the engineered row r carries in field lag the us_aqi the cleaned frame
\* holds for the hour k hours before r's
LagAligned(r, k, lag) ==
    \E i \in DOMAIN pipe.df_clean.rows :
        /\ pipe.df_clean.rows[i].timestamp = r.event_timestamp - Hours(k)
        /\ pipe.df_clean.rows[i].us_aqi = r[lag]

\* C20 (lag alignment): the frame the cleaner hands to the builder has
\* consecutive rows exactly one hour apart, and every engineered row of
\* hour t carries as aqi_lag_1, aqi_lag_3 and aqi_lag_24 the us_aqi of the
\* hours t - 1, t - 3 and t - 24.
C20_LagAlignment ==
    pipe.built =>
        LET rows == pipe.df_clean.rows
            feat == pipe.df_feat.rows
        IN  /\ \A i \in 1..(Len(rows) - 1) :
                  rows[i + 1].timestamp = rows[i].timestamp + Hours(1)
            /\ \A j \in DOMAIN feat :
                  /\ LagAligned(feat[j], 1, "aqi_lag_1")
                  /\ LagAligned(feat[j], 3, "aqi_lag_3")
                  /\ LagAligned(feat[j], 24, "aqi_lag_24")

----------------------------------------------------------------------------
(* The runs under a source that completes what it published *)

\* the source publishes a value it had returned as null for the current hour
SourceFills ==
    /\ \E r \in source : \E c \in RawCols :
          /\ r.timestamp = FloorH(ToLocal(now))
          /\ IsNa(r[c])
          /\ source' = (source \ {r}) \cup
                {[r EXCEPT ![c] = RawRow(ToUtc(r.timestamp))[c]]}
    /\ pre' = store
    /\ last' = NoRun
    /\ UNCHANGED <<store, now, revised, env, parts>>

NextRevisions == Tick \/ SourceRevises \/ SourceFills \/ Repair \/ Catchup \/ Hourly

SpecRevisions == Init /\ [][NextRevisions]_vars

\* the *_was_missing fields of a document
Flags(d) == [c \in FlagCols \cap DOMAIN d |-> d[c]]

\* C21 (flags frozen at first write): no step changes a *_was_missing field
\* of a document the collection already holds for a (location_id,
\* event_timestamp).
C21_FlagsFrozen ==
    [][\A d \in store : \A d2 \in store' :
          (d2.location_id = d.location_id /\ d2.event_timestamp = d.event_timestamp)
              => Flags(d2) = Flags(d)]_vars

\* the outcomes of a run that ended before its commit step: an error raised
\* before it, no gap, or no fresh row
BeforeCommit ==
    {"config_error", "store_empty", "no_gap", "fetch_error", "no_rows",
     "critical_missing", "insufficient_history"}

\* C22 (the store is mutated only when committing): a run of either entry
\* point that ended before its commit step has left the collection exactly
\* as it was when the run started.
C22_MutatedOnlyWhenCommitting ==
    (last.op # "none" /\ last.outcome \in BeforeCommit) => store = pre

\* a run fetched its row, read the history and failed on it
C22_Witness ==
    /\ last.op = "hourly"
    /\ last.outcome = "insufficient_history"
    /\ last.fetches = 1
    /\ pre # {}
    /\ store = pre

\* the hours of the window [a, b]
WindowHours(a, b) == {h \in a..b : h % 60 = 0}

\* the UTC hour of a source row
UtcHour(r) == FloorH(ToUtc(r.timestamp))

\* C23 (the fetch range covers the window): every hour of the window a
\* catch-up run resolved falls, on the source's wall clock, on a civil day
\* the run asked the adapter for, and the fresh rows the run kept are those
\* of exactly the source rows whose UTC hour lies in the window.
C23_FetchRangeCoversWindow ==
    (last.op = "catchup" /\ last.fetches = 1 /\ ~last.raised)
        => /\ \A h \in WindowHours(last.start, last.end) :
                 /\ last.dates[1] <= DateOf(ToLocal(h))
                 /\ DateOf(ToLocal(h)) <= last.dates[2]
           /\ last.fresh =
                 {UtcHour(r) : r \in {x \in source : /\ UtcHour(x) >= last.start
                                                     /\ UtcHour(x) <= last.end}}

\* a window that crosses the local midnight while it lies within one UTC
\* day: two civil days were asked for, rows were kept, and a fetched row
\* outside the window was filtered out
C23_Witness ==
    /\ last.op = "catchup"
    /\ last.fetches = 1
    /\ ~last.raised
    /\ last.dates[1] < last.dates[2]
    /\ DateOf(last.start) = DateOf(last.end)
    /\ Cardinality(last.fresh) >= 2
    /\ \E r \in source : /\ DateOf(r.timestamp) >= last.dates[1]
                         /\ DateOf(r.timestamp) <= last.dates[2]
                         /\ UtcHour(r) \notin last.fresh

\* the persisted hours have no hole between the earliest and the latest
Contiguous(st) ==
    Times(st) # {} =>
        \A h \in WindowHours(Min(Times(st)), Max(Times(st))) : h \in Times(st)

\* the hours up to the current one, from the earliest persisted hour on,
\* that have no document
StillMissing(st) ==
    IF Times(st) = {} THEN {}
    ELSE {h \in WindowHours(Min(Times(st)), CurrentHour) : h \notin Times(st)}

DerivedCols == TimeCols \cup LagCols

\* the rows the catch-up path's steps derive for the UTC hour t from the
\* source's observation and the raw values of the 24 persisted hours before
\* t: the fetched rows converted and filtered to the hour, the frame cleaned,
\* the features built
CatchupRows(st, src, t) ==
    LET hist == ByTime({d \in Docs(st) : /\ d.event_timestamp >= t - Hours(24)
                                         /\ d.event_timestamp < t})
        context == Tup([i \in DOMAIN hist |->
                      Rec([c \in RawCols \cup {"timestamp"} |->
                          IF c = "timestamp" THEN hist[i].event_timestamp ELSE hist[i][c]])])
        day == DateOf(ToLocal(t))
        df_new_raw == FreshInWindow(FetchKarachiAqiWeather(src, day, day), t, t)
        df_all == [cols |-> RawCols \cup {"timestamp"}, rows |-> context \o df_new_raw.rows]
        df_feat == build_feature_store_rows(clean_aqi_weather_data(df_all), LOCATION_ID)
    IN  {r \in Range(df_feat.rows) : r.event_timestamp = t}

\* r and d have the same value in every column of cols
AgreeOn(r, d, cols) == \A c \in cols : r[c] = d[c]

\* C25 (the two ingestion paths agree): the document a single-hour run has
\* written for an hour has the key, and the derived values, of the row the
\* catch-up path derives for that hour from the same observation and the
\* same 24 persisted hours before it.
C25_PathsAgree ==
    (last.op = "hourly" /\ last.outcome = "done")
        => \A d \in store :
              d.event_timestamp = CurrentHour
                  => \E r \in CatchupRows(pre, source, CurrentHour) :
                        AgreeOn(r, d, {"location_id", "event_timestamp"} \cup DerivedCols)

====
